---------------------------- MODULE Spec2Model ----------------------------
(***************************************************************************)
(* ADOA (Anomaly Detection with partially Observed Anomalies), the class   *)
(* ADOA of Test-other-method-kmeans/adoa.py: determine_trainset, predict   *)
(* and __repr__ as a state machine over one estimator instance.            *)
(*                                                                         *)
(* Numbers.  A weighted score is an integer number of grid steps in        *)
(* 0..MaxScore (the score engine's output lies in [0,1]; the grid step is  *)
(* the unit).  A threshold (alpha, beta, a median, a percentile) is kept   *)
(* as the integer  Scale * value : Scale is chosen so that every mean,     *)
(* median, linear interpolation and the product with 0.9 is an integer,    *)
(* hence the arithmetic below is the exact real arithmetic of the source   *)
(* (rounding of the machine floats is not modelled).  A weight is the      *)
(* fraction [num, den]; den = 0 is the 0/0 of numpy, NaN.                   *)
(*                                                                         *)
(* The sentinel 'auto' of the constructor is Auto; a threshold given by    *)
(* the caller is a positive number (docstring, lines 32-36).               *)
(*                                                                         *)
(* The score engine (cal_weighted_score) rests on IsolationForest,         *)
(* minmax_scale and the cluster centers, all outside this file; with a     *)
(* fixed random_state it is a deterministic function of the instance's     *)
(* data, which the variable scoreOf holds: one score per dataset row.      *)
(* Every vector of grid scores is admitted; theta, contamination and the   *)
(* two rescaled sub-scores are inside the engine.  The rows stand for the  *)
(* samples; their features are read by the engine and the classifier only. *)
(***************************************************************************)
EXTENDS Integers, Sequences, FiniteSets

\* ------------------------------------------------------------------ bounds
MaxSamples == 3
MaxScore == 2

\* ------------------------------------------------------- program constants
Auto == -1
Step == 5
FallbackTenths == 9
DefaultPercent == 45

RECURSIVE Fact(_)
Fact(n) == IF n <= 1 THEN 1 ELSE n * Fact(n - 1)

Scale == 100 * Fact(MaxSamples)

\* Inputs of the constructor that the model enumerates: the default
\* percentile and one that is no multiple of Step; thresholds left to
\* 'auto' or given as positive numbers, beta below alpha.
PercentArgs == {DefaultPercent, Step + 2}
GailvArgs == {1, 2}
AlphaArgs == {Auto, Scale \div 2, 2 * Scale}
BetaArgs == {Auto, Scale \div 5}

VARIABLES
    anomalies,   \* self.anomalies: the dataset rows of the observed anomalies
    unlabel,     \* self.unlabel: the dataset rows of the unlabeled samples
    scoreOf,     \* the deterministic score engine: row -> weighted score
    alpha,       \* self.alpha
    beta,        \* self.beta
    percent,     \* self.percent
    gailv,       \* self.gailv
    fitted,      \* whether self.classifer (the caller's object) has been fit
    arg_alpha,   \* the alpha the constructor was given
    arg_beta,    \* the beta the constructor was given
    pc,          \* position: "idle", "while", "assert", "fit", "format"
    caller,      \* the method that entered determine_trainset
    pct,         \* the local variable percent of determine_trainset
    ret,         \* what determine_trainset returned last, with its thresholds
    prev,        \* what determine_trainset returned the time before
    outcome      \* how the last finished call ended

vars == <<anomalies, unlabel, scoreOf, alpha, beta, percent, gailv, fitted,
          arg_alpha, arg_beta, pc, caller, pct, ret, prev, outcome>>

config == <<percent, gailv, anomalies, unlabel, scoreOf>>

\* ----------------------------------------------------------------- numpy
Rows(n) == [i \in 1..n |-> i]

RECURSIVE SumSeq(_)
SumSeq(s) == IF s = <<>> THEN 0 ELSE Head(s) + SumSeq(Tail(s))

np_min(a) == CHOOSE v \in {a[i] : i \in DOMAIN a} : \A j \in DOMAIN a : v <= a[j]
np_max(a) == CHOOSE v \in {a[i] : i \in DOMAIN a} : \A j \in DOMAIN a : v >= a[j]

\* a in ascending order: the i-th smallest element
np_sort(a) ==
    [i \in DOMAIN a |->
        CHOOSE v \in {a[j] : j \in DOMAIN a} :
            /\ Cardinality({j \in DOMAIN a : a[j] < v}) < i
            /\ i <= Cardinality({j \in DOMAIN a : a[j] <= v})]

\* Scale * np.median(a): the middle element, or the mean of the middle two
np_median(a) ==
    LET s == np_sort(a)
        n == Len(a)
    IN  IF n % 2 = 1
        THEN Scale * s[(n + 1) \div 2]
        ELSE (Scale \div 2) * (s[n \div 2] + s[n \div 2 + 1])

\* Scale * np.percentile(a, q), 0 <= q <= 100: linear interpolation between
\* the neighbours of the position q/100 * (n-1) of the sorted array
np_percentile(a, q) ==
    LET s == np_sort(a)
        pos == q * (Len(a) - 1)
        lo == pos \div 100
        r == pos % 100
    IN  IF r = 0
        THEN Scale * s[lo + 1]
        ELSE Scale * s[lo + 1] + (Scale \div 100) * r * (s[lo + 2] - s[lo + 1])

\* -------------------------------------------------------- the score engine
cal_weighted_score == [i \in 1..(Len(anomalies) + Len(unlabel)) |-> scoreOf[i]]

\* ------------------------------------------------------ determine_trainset
\* Two slips of line 98 the claims must tell from the code: the sensitivity
\* factor applied again to an alpha already derived, and alpha derived from
\* the scores whatever the instance holds.
AlphaRescaled(a, ws, nA, g) ==
    IF a = Auto
    THEN (Scale * (SumSeq(SubSeq(ws, 1, nA)) + nA * np_min(ws)) * g) \div (2 * nA)
    ELSE a * g

AlphaRederived(a, ws, nA, g) ==
    (Scale * (SumSeq(SubSeq(ws, 1, nA)) + nA * np_min(ws)) * g) \div (2 * nA)

\* line 98: Scale * ((np.mean(anomalies_score) + min_score) / 2) * gailv, or
\* the alpha already on the instance
AlphaOf(a, ws, nA, g) ==
    IF a = Auto
    THEN (Scale * (SumSeq(SubSeq(ws, 1, nA)) + nA * np_min(ws)) * g) \div (2 * nA)
    ELSE a

\* line 99
BetaStart(al, ws, p) ==
    IF np_median(ws) < al THEN np_median(ws) ELSE np_percentile(ws, p)

\* line 104
Fallback(al) == (al * FallbackTenths) \div 10

\* A slip of line 110: the reliable normals taken strictly below beta.
rlb_strict(s, b) == Scale * s < b

\* line 110
rlb_bool(s, b) == Scale * s <= b
ptt_bool(s, al) == Scale * s >= al

One == [num |-> 1, den |-> 1]

\* lines 110-126: the training set, as rows of the dataset
TrainSet(ws, al, b) ==
    LET nA == Len(anomalies)
        min_score == np_min(ws)
        max_score == np_max(ws)
        ptt == SelectSeq(unlabel, LAMBDA i : ptt_bool(ws[i], al))
        rlb == SelectSeq(unlabel, LAMBDA i : rlb_bool(ws[i], b))
        ptt_w == [k \in 1..Len(ptt) |-> [num |-> ws[ptt[k]], den |-> max_score]]
        rlb_w == [k \in 1..Len(rlb) |->
                     [num |-> max_score - ws[rlb[k]], den |-> max_score - min_score]]
    IN  [X_train |-> anomalies \o ptt \o rlb,
         y_train |-> [k \in 1..nA |-> 1] \o [k \in 1..Len(ptt) |-> 1]
                        \o [k \in 1..Len(rlb) |-> 0],
         weights |-> [k \in 1..nA |-> One] \o ptt_w \o rlb_w,
         alpha |-> al,
         beta |-> b]

NoResult == [X_train |-> <<>>, y_train |-> <<>>, weights |-> <<>>,
             alpha |-> Auto, beta |-> Auto]

Ops == {"determine_trainset", "predict", "__repr__"}

\* -------------------------------------------------------------------- Init
\* __init__, lines 42-56: no argument is checked; the unlabeled set may be
\* empty.  At least one anomaly: what get_cluster_centers does with none is
\* not in this file.  Both thresholds are given, or alpha alone; gailv is
\* read only when alpha is 'auto' (line 98), so it is varied only then.
Init ==
    /\ \E nA \in 1..MaxSamples : \E nU \in 0..(MaxSamples - nA) :
          /\ anomalies = Rows(nA)
          /\ unlabel = [i \in 1..nU |-> nA + i]
          /\ scoreOf \in [1..(nA + nU) -> 0..MaxScore]
    /\ arg_alpha \in AlphaArgs
    /\ arg_beta \in BetaArgs
    /\ arg_beta # Auto => (arg_alpha # Auto /\ arg_beta < arg_alpha)
    /\ alpha = arg_alpha
    /\ beta = arg_beta
    /\ percent \in PercentArgs
    /\ gailv \in (IF arg_alpha = Auto THEN GailvArgs ELSE {1})
    /\ fitted = FALSE
    /\ pc = "idle"
    /\ caller = "determine_trainset"
    /\ pct = percent
    /\ ret = NoResult
    /\ prev = NoResult
    /\ outcome = "none"

\* ----------------------------------------------------------------- actions
\* A call of determine_trainset, by the user or from predict (line 129) or
\* __repr__ (line 144): lines 91-99.
Call(op) ==
    /\ pc = "idle"
    /\ caller' = op
    /\ pct' = percent
    /\ alpha' = AlphaOf(alpha, cal_weighted_score, Len(anomalies), gailv)
    /\ beta' = BetaStart(alpha', cal_weighted_score, percent)
    /\ pc' = "while"
    /\ UNCHANGED <<config, fitted, arg_alpha, arg_beta, ret, prev, outcome>>

\* One pass of the loop body, lines 100-106.  np.percentile raises
\* ValueError for a percentile outside [0, 100].
WhileBody ==
    /\ pc = "while"
    /\ beta >= alpha
    /\ pct' = pct - Step
    /\ IF pct' = 0
       THEN /\ beta' = Fallback(alpha)
            /\ pc' = "assert"
            /\ UNCHANGED outcome
       ELSE IF pct' > 0
            THEN /\ beta' = np_percentile(cal_weighted_score, pct')
                 /\ pc' = "while"
                 /\ UNCHANGED outcome
            ELSE /\ pc' = "idle"
                 /\ outcome' = "ValueError"
                 /\ UNCHANGED beta
    /\ UNCHANGED <<config, alpha, fitted, arg_alpha, arg_beta, caller, ret, prev>>

\* The loop condition is false, line 100.
WhileExit ==
    /\ pc = "while"
    /\ beta < alpha
    /\ pc' = "assert"
    /\ UNCHANGED <<config, alpha, beta, fitted, arg_alpha, arg_beta, caller,
                   pct, ret, prev, outcome>>

\* The assertion of line 107 fails.
AssertFail ==
    /\ pc = "assert"
    /\ ~(beta < alpha)
    /\ pc' = "idle"
    /\ outcome' = "AssertionError"
    /\ UNCHANGED <<config, alpha, beta, fitted, arg_alpha, arg_beta, caller,
                   pct, ret, prev>>

\* The assertion holds; lines 110-126 build and return the training set.
Partition ==
    /\ pc = "assert"
    /\ beta < alpha
    /\ ret' = TrainSet(cal_weighted_score, alpha, beta)
    /\ prev' = ret
    /\ pc' = CASE caller = "predict" -> "fit"
               [] caller = "__repr__" -> "format"
               [] OTHER -> "idle"
    /\ outcome' = IF caller = "determine_trainset" THEN "returned" ELSE outcome
    /\ UNCHANGED <<config, alpha, beta, fitted, arg_alpha, arg_beta, caller, pct>>

\* predict, lines 130-137: the classifier is fit on the training set.
PredictFit ==
    /\ pc = "fit"
    /\ fitted' = TRUE
    /\ pc' = "idle"
    /\ outcome' = "returned"
    /\ UNCHANGED <<config, alpha, beta, arg_alpha, arg_beta, caller, pct, ret, prev>>

\* __repr__, lines 145-153: the counts are formatted; nothing is stored.
ReprFormat ==
    /\ pc = "format"
    /\ pc' = "idle"
    /\ outcome' = "returned"
    /\ UNCHANGED <<config, alpha, beta, fitted, arg_alpha, arg_beta, caller,
                   pct, ret, prev>>

Next ==
    \/ \E op \in Ops : Call(op)
    \/ WhileBody
    \/ WhileExit
    \/ AssertFail
    \/ Partition
    \/ PredictFit
    \/ ReprFormat

Spec == Init /\ [][Next]_vars

\* ------------------------------------------------------------------ claims
nA == Len(anomalies)
Unlabeled == {unlabel[k] : k \in DOMAIN unlabel}
ScoreAt(i) == Scale * cal_weighted_score[i]
PotentialRows == {i \in Unlabeled : ScoreAt(i) >= ret.alpha}
ReliableRows == {i \in Unlabeled : ScoreAt(i) <= ret.beta}
AmbiguousRows == {i \in Unlabeled : ret.beta < ScoreAt(i) /\ ScoreAt(i) < ret.alpha}
Returned == ret # NoResult
InUnit(w) == w.den > 0 /\ 0 <= w.num /\ w.num <= w.den

\* A step of a __repr__ call: its entry into determine_trainset or any
\* later step before it returns.
ReprStep ==
    \/ pc = "idle" /\ pc' = "while" /\ caller' = "__repr__"
    \/ pc # "idle" /\ caller = "__repr__"

\* The percentiles a run of the loop asks for: percent, percent - 5, ...,
\* as long as they are above 0.
Tried(p) == {q \in 1..p : (p - q) % Step = 0}

\* C1: determine_trainset always reaches its partition step with
\* beta < alpha: the assertion of line 107 never fails.
C1_AssertNeverFails ==
    /\ outcome # "AssertionError"
    /\ pc = "assert" => beta < alpha

\* C2: with numeric alpha and beta given to the constructor, the thresholds
\* of the partition are exactly the given ones.
C2_ManualThresholdsUsed ==
    (arg_alpha # Auto /\ arg_beta # Auto /\ Returned) =>
        /\ ret.alpha = arg_alpha
        /\ ret.beta = arg_beta
        /\ ReliableRows = {i \in Unlabeled : ScoreAt(i) <= arg_beta}

\* C3: in every returned training set the first len(anomalies) weights are
\* exactly 1.0 and every weight is a defined number in [0,1].
C3_WeightsInUnitInterval ==
    Returned =>
        \A k \in DOMAIN ret.weights :
            /\ k <= nA => ret.weights[k] = One
            /\ InUnit(ret.weights[k])

\* C4: the returned training set has len(anomalies) + |score >= alpha| +
\* |score <= beta| rows, X_train, y_train and weights of that one length;
\* the two unlabeled subsets are disjoint and make up, in this order, the
\* rows after the anomalies; no sample strictly between beta and alpha is
\* in the training set.
C4_TrainSetShape ==
    Returned =>
        LET X == ret.X_train
            nP == Cardinality(PotentialRows)
            nR == Cardinality(ReliableRows)
        IN  /\ Len(X) = nA + nP + nR
            /\ Len(ret.y_train) = Len(X)
            /\ Len(ret.weights) = Len(X)
            /\ PotentialRows \cap ReliableRows = {}
            /\ SubSeq(X, 1, nA) = anomalies
            /\ {X[k] : k \in (nA + 1)..(nA + nP)} = PotentialRows
            /\ {X[k] : k \in (nA + nP + 1)..Len(X)} = ReliableRows
            /\ \A k \in DOMAIN X : X[k] \notin AmbiguousRows

C4_Witness ==
    /\ Returned
    /\ PotentialRows # {}
    /\ ReliableRows # {}

\* C5: two calls in a row return the same (X_train, y_train, weights),
\* although the first one replaced alpha = 'auto' by a number.
C5_Idempotent ==
    prev # NoResult =>
        /\ ret.X_train = prev.X_train
        /\ ret.y_train = prev.y_train
        /\ ret.weights = prev.weights

C5_Witness ==
    /\ prev # NoResult
    /\ arg_alpha = Auto
    /\ alpha # Auto
    /\ Len(ret.X_train) > nA

\* C6: an empty unlabeled set is rejected before any score or threshold is
\* computed from it: no call gets anywhere and nothing is derived.
C6_EmptyUnlabelRejected ==
    unlabel = <<>> =>
        /\ pc = "idle"
        /\ alpha = arg_alpha
        /\ beta = arg_beta
        /\ ret = NoResult

\* C7 as stated: no step of __repr__ changes any field of the instance.
C7_ReprReadOnly ==
    [][ReprStep => UNCHANGED <<alpha, beta, config, fitted>>]_vars

\* C7, amended: no step of __repr__ changes a field other than alpha and
\* beta; alpha changes only from 'auto' to a number; and when a training set
\* had been returned before, __repr__ comes back from determine_trainset
\* with alpha and beta at the values they had then.
C7_ReprFrame ==
    [][ReprStep =>
          /\ UNCHANGED <<config, fitted>>
          /\ alpha # Auto => alpha' = alpha
          /\ (pc' = "format" /\ prev' # NoResult) =>
                 (alpha' = prev'.alpha /\ beta' = prev'.beta)]_vars

C7_Witness ==
    /\ pc = "format"
    /\ caller = "__repr__"
    /\ prev # NoResult
    /\ arg_alpha = Auto

C9_NoPercentileBelowZero ==
    /\ pct >= 0
    /\ outcome # "ValueError"

\* C10: after a call, beta is the fallback 0.9 * alpha if the median and
\* every percentile tried are not below alpha, and otherwise the median or
\* one of the percentiles tried.
C10_FallbackExactlyWhenExhausted ==
    (pc = "idle" /\ outcome # "none") =>
        LET ws == cal_weighted_score
            exhausted == /\ np_median(ws) >= alpha
                         /\ \A q \in Tried(percent) : np_percentile(ws, q) >= alpha
        IN  IF exhausted
            THEN beta = Fallback(alpha)
            ELSE beta \in {np_median(ws)} \cup {np_percentile(ws, q) : q \in Tried(percent)}

=============================================================================
